---- MODULE Spec2Model ----
(***************************************************************************)
(* Model of src/rembg/background_remover.py: the command-line tool that    *)
(* enumerates image files, removes their background through the external   *)
(* rembg library, optionally composites the result onto white, and saves   *)
(* one output per input.                                                   *)
(*                                                                         *)
(* A file name is a sequence of tokens: the token "." is a dot, every      *)
(* other token is a non-empty run of characters without a dot.  A path is  *)
(* a record [dir, name]; the directories are "." (the current directory),  *)
(* "d" (a subdirectory of it), "x" (the inside of a directory that is      *)
(* itself named x.png) and "out" (the -o directory).  Path.glob is         *)
(* modelled with the case-sensitive matching pathlib uses on POSIX.        *)
(***************************************************************************)
EXTENDS Integers, Sequences, FiniteSets, TLC

VARIABLES
    fs,             \* the file system: set of entries [dir, name, kind]
    outState,       \* the -o directory: "absent", "dir", "file"
    args,           \* argparse result: [input, all, output, transparent]
    model_outputs,  \* the images the segmentation primitive may return
    pc,             \* position in main: "start", "loop", "done", "crashed"
    input_files,    \* main's input_files list
    idx,            \* number of loop iterations of main already taken
    success_count,  \* main's success_count
    log,            \* one record per call of remove_background
    printed         \* main's last message: [msg, n, total], msg one of
                    \* "", "none", "found", "completed"

vars == <<fs, outState, args, model_outputs, pc, input_files, idx,
          success_count, log, printed>>

---------------------------------------------------------------------------
(* Bounds of the model *)

MaxArgs == 2
MaxPixels == 2

---------------------------------------------------------------------------
(* File names, paths, the file system *)

Dot == "."
NoBgSuffix == "_no_bg"

APng == <<"a", Dot, "png">>
BJpg == <<"b", Dot, "JPG">>
NTxt == <<"n", Dot, "txt">>
XPng == <<"x", Dot, "png">>
HiddenPng == <<Dot, "png">>
DName == <<"d">>

Cwd == "."
SubDir == "d"
OutDir == "out"

NoPath == [dir |-> "", name |-> <<>>]

PathOf(d, n) == [dir |-> d, name |-> n]

\* Path(".") and Path("d")
CwdArg == PathOf(Cwd, <<>>)
SubDirArg == PathOf(Cwd, DName)

Entry(d, n, k) == [dir |-> d, name |-> n, kind |-> k]

\* Path.is_file / Path.is_dir
is_file(p, files) == Entry(p.dir, p.name, "file") \in files

is_dir(p, files) == p = CwdArg \/ Entry(p.dir, p.name, "dir") \in files

\* the directory a directory path denotes
DirId(p) ==
    IF p = CwdArg THEN Cwd
    ELSE IF p = SubDirArg THEN SubDir
    ELSE "x"

\* index of the last dot of a name, 0 when there is none (str.rfind)
LastDot(n) ==
    LET dots == {i \in 1..Len(n) : n[i] = Dot}
    IN  IF dots = {} THEN 0 ELSE CHOOSE i \in dots : \A j \in dots : j <= i

\* Path.suffix: from the last dot on, unless that dot is first or last
Suffix(n) ==
    LET i == LastDot(n)
    IN  IF i > 1 /\ i < Len(n) THEN SubSeq(n, i, Len(n)) ELSE <<>>

\* Path.stem: what is before the suffix
Stem(n) ==
    LET i == LastDot(n)
    IN  IF i > 1 /\ i < Len(n) THEN SubSeq(n, 1, i - 1) ELSE n

---------------------------------------------------------------------------
(* The input enumerator *)

\* the extensions of the glob patterns "*.jpg", ..., in the order of the code
Extensions == <<"jpg", "jpeg", "png", "JPG", "JPEG", "PNG">>

\* fnmatch of the pattern "*.<ext>" against a name
MatchAny(ext, n) == Len(n) >= 1

Match(ext, n) == Len(n) >= 2 /\ n[Len(n) - 1] = Dot /\ n[Len(n)] = ext

\* the entries of directory d that "*.<ext>" matches: files and directories
Glob(d, ext, files) ==
    {PathOf(e.dir, e.name) : e \in {f \in files : f.dir = d /\ Match(ext, f.name)}}

\* the orders in which a directory scan may yield a set of paths
Orderings(S) ==
    {s \in [1..Cardinality(S) -> S] : \A i, j \in 1..Cardinality(S) : i # j => s[i] # s[j]}

\* for ext in [...]: input_files.extend(dir.glob(ext))
RECURSIVE GlobFrom(_, _, _)
GlobFrom(d, k, files) ==
    IF k > Len(Extensions) THEN {<<>>}
    ELSE {s \o r : s \in Orderings(Glob(d, Extensions[k], files)),
                   r \in GlobFrom(d, k + 1, files)}

GlobAll(d, files) == GlobFrom(d, 1, files)

\* what one positional argument adds
ExpandItem(p, files) ==
    IF is_file(p, files) THEN {<<p>>}
    ELSE IF is_dir(p, files) THEN GlobAll(DirId(p), files)
    ELSE {<<>>}

\* for item in args.input: ...
RECURSIVE ExpandArgs(_, _, _)
ExpandArgs(items, k, files) ==
    IF k > Len(items) THEN {<<>>}
    ELSE {s \o r : s \in ExpandItem(items[k], files),
                   r \in ExpandArgs(items, k + 1, files)}

\* the candidate lists the enumerator may build
Candidates(a, files) ==
    IF a.all THEN GlobAll(Cwd, files)
    ELSE IF a.input = <<>> THEN GlobAll(Cwd, files)
    ELSE ExpandArgs(a.input, 1, files)

---------------------------------------------------------------------------
(* Images and the white composite *)

White == <<255, 255, 255>>
Colours == {<<0, 0, 0>>, <<200, 30, 100>>, White}
Alphas == {0, 128, 255}

\* an RGBA pixel is <<r, g, b, a>>, an RGB pixel <<r, g, b>>
RGBAPixels == {c \o <<a>> : c \in Colours, a \in Alphas}

Images ==
    UNION {[mode : {"RGBA"}, px : [1..n -> RGBAPixels]] : n \in 1..MaxPixels}

NoImage == [mode |-> "", px |-> <<>>]

DefaultSeg ==
    [mode |-> "RGBA", px |-> <<<<200, 30, 100, 255>>, <<0, 0, 0, 0>>>>]

\* Pillow's MULDIV255: a * b / 255, rounded
MULDIV255(a, b) ==
    LET tmp == a * b + 128 IN ((tmp \div 256) + tmp) \div 256

\* Pillow's BLEND8: in1 where the mask is 0, in2 where it is 255
BLEND8(mask, in1, in2) == MULDIV255(in1, 255 - mask) + MULDIV255(in2, mask)

\* Image.new('RGB', size, (255, 255, 255))
NewWhite(n) == [mode |-> "RGB", px |-> [i \in 1..n |-> White]]

\* bg.paste(im, (0, 0), im): im's colour through im's alpha band
Paste(bg, im) ==
    [mode |-> bg.mode,
     px |-> [i \in 1..Len(bg.px) |->
                IF i <= Len(im.px)
                THEN [k \in 1..3 |-> BLEND8(im.px[i][4], bg.px[i][k], im.px[i][k])]
                ELSE bg.px[i]]]

\* lines 41-47 of remove_background
Composite(output_image, white_background) ==
    IF white_background
    THEN Paste(NewWhite(Len(output_image.px)), output_image)
    ELSE output_image

---------------------------------------------------------------------------
(* Output paths *)

\* lines 49-52 of remove_background: <parent>/<stem>_no_bg<suffix>
DerivedAfterSuffix(input_path, output_path) ==
    IF output_path = NoPath
    THEN PathOf(input_path.dir, input_path.name \o <<NoBgSuffix>>)
    ELSE output_path

DerivedPath(input_path, output_path) ==
    IF output_path = NoPath
    THEN PathOf(input_path.dir,
                Stem(input_path.name) \o <<NoBgSuffix>> \o Suffix(input_path.name))
    ELSE output_path

\* lines 114-118 of main: None, or <output dir>/<stem><suffix>
OutputPathStemOnly(a, input_file) ==
    IF a.output THEN PathOf(OutDir, Stem(input_file.name)) ELSE NoPath

OutputPath(a, input_file) ==
    IF a.output
    THEN PathOf(OutDir, Stem(input_file.name) \o Suffix(input_file.name))
    ELSE NoPath

\* Path.mkdir(exist_ok=True) raises when the path exists and is no directory
MkdirRaises(a, st) == a.output /\ st = "file"

AfterMkdir(a, st) == IF a.output /\ st = "absent" THEN "dir" ELSE st

\* lines 120-121 of main
NextCountAlways(count, ok) == count + 1

NextCount(count, ok) == IF ok THEN count + 1 ELSE count

\* main passes "not args.transparent" as white_background
WhiteBackgroundFlipped(a) == a.transparent

WhiteBackground(a) == ~a.transparent

---------------------------------------------------------------------------
(* Initial states *)

CwdPool == {Entry(Cwd, APng, "file"), Entry(Cwd, BJpg, "file"),
            Entry(Cwd, NTxt, "file"), Entry(Cwd, XPng, "dir")}

SubDirPool == {Entry(SubDir, APng, "file"), Entry(SubDir, HiddenPng, "file")}

FixedEntries == {Entry(Cwd, DName, "dir")}

ArgPool == {CwdArg, SubDirArg, PathOf(Cwd, APng), PathOf(Cwd, NTxt)}

ArgSeqs == UNION {[1..n -> ArgPool] : n \in 0..MaxArgs}

OutStates == {"absent", "dir", "file"}

Message(m, n, t) == [msg |-> m, n |-> n, total |-> t]

Started ==
    /\ pc = "start"
    /\ input_files = <<>>
    /\ idx = 0
    /\ success_count = 0
    /\ log = <<>>
    /\ printed = Message("", 0, 0)

\* the command lines: any positional arguments without --all, at most one
\* (which the code then ignores) with it
CommandLines ==
    {a \in [input : ArgSeqs, all : BOOLEAN, output : BOOLEAN, transparent : BOOLEAN] :
        a.all => Len(a.input) <= 1}

\* every file system and command line of the pools, one segmentation result
Init ==
    /\ \E c \in SUBSET CwdPool, s \in SUBSET SubDirPool :
          fs = FixedEntries \cup c \cup s
    /\ args \in CommandLines
    /\ outState \in (IF args.output THEN OutStates ELSE {"absent"})
    /\ model_outputs = {DefaultSeg}
    /\ Started

\* one file on the command line, every segmentation result
InitImage ==
    /\ fs = FixedEntries \cup {Entry(Cwd, APng, "file")}
    /\ args \in [input : {<<PathOf(Cwd, APng)>>, <<>>}, all : BOOLEAN,
                 output : BOOLEAN, transparent : BOOLEAN]
    /\ outState \in (IF args.output THEN {"absent", "file"} ELSE {"absent"})
    /\ model_outputs = Images
    /\ Started

---------------------------------------------------------------------------
(* The steps of main *)

\* lines 80-109: build input_files; return early when it is empty
Enumerate ==
    /\ pc = "start"
    /\ \E c \in Candidates(args, fs) :
          /\ input_files' = c
          /\ IF c = <<>>
             THEN pc' = "done" /\ printed' = Message("none", 0, 0)
             ELSE pc' = "loop" /\ printed' = Message("found", Len(c), Len(c))
    /\ UNCHANGED <<fs, outState, args, model_outputs, idx, success_count, log>>

\* the format Image.save derives from the extension of the output path,
\* "" when the extension is none it knows
SaveFormat(target) ==
    LET e == Suffix(target.name)
    IN  IF e = <<>> THEN ""
        ELSE IF e[2] \in {"jpg", "jpeg", "JPG", "JPEG"} THEN "JPEG"
        ELSE IF e[2] \in {"png", "PNG"} THEN "PNG"
        ELSE ""

\* what a call of remove_background may do: return True after saving
\* ("ok"), or catch an exception ("raise").  Image.open raises on a
\* directory; Image.save raises on an unknown extension and on an image
\* with alpha written as JPEG.  Image.save removes the file it created when
\* writing fails, so a failed call leaves a truncated file
\* ("raise_partial") only where the output path was a file before.
Outcomes(input_path, target, mode, files) ==
    IF ~is_file(input_path, files) \/ SaveFormat(target) = "" THEN {"raise"}
    ELSE (IF SaveFormat(target) = "JPEG" /\ mode = "RGBA" THEN {"raise"}
          ELSE {"ok", "raise"})
         \cup (IF is_file(target, files) THEN {"raise_partial"} ELSE {})

\* lines 21-62: one call of remove_background, as a log record
remove_background(input_path, output_path, white_background, outcome, seg) ==
    [input |-> input_path,
     output_path |-> output_path,
     ok |-> outcome = "ok",
     saved_to |-> IF outcome = "raise" THEN NoPath
                  ELSE DerivedPath(input_path, output_path),
     seg |-> seg,
     image |-> IF outcome = "ok" THEN Composite(seg, white_background)
               ELSE NoImage]

\* the file system after the call
AfterSave(files, r) ==
    IF r.saved_to = NoPath \/ Entry(r.saved_to.dir, r.saved_to.name, "dir") \in files
    THEN files
    ELSE files \cup {Entry(r.saved_to.dir, r.saved_to.name, "file")}

\* lines 113-121: one iteration of the loop of main
ProcessFile ==
    /\ pc = "loop"
    /\ idx < Len(input_files)
    /\ IF MkdirRaises(args, outState)
       THEN /\ pc' = "crashed"
            /\ UNCHANGED <<fs, outState, idx, success_count, log>>
       ELSE LET input_file == input_files[idx + 1]
                output_path == OutputPath(args, input_file)
            IN  \E seg \in model_outputs :
                \E outcome \in Outcomes(input_file, DerivedPath(input_file, output_path),
                                        Composite(seg, WhiteBackground(args)).mode, fs) :
               LET r == remove_background(input_file, output_path,
                                          WhiteBackground(args), outcome, seg)
               IN  /\ outState' = AfterMkdir(args, outState)
                   /\ fs' = AfterSave(fs, r)
                   /\ log' = Append(log, r)
                   /\ success_count' = NextCount(success_count, r.ok)
                   /\ idx' = idx + 1
                   /\ pc' = pc
    /\ UNCHANGED <<args, model_outputs, input_files, printed>>

\* line 123: the summary, then main returns
Summary ==
    /\ pc = "loop"
    /\ idx = Len(input_files)
    /\ pc' = "done"
    /\ printed' = Message("completed", success_count, Len(input_files))
    /\ UNCHANGED <<fs, outState, args, model_outputs, input_files, idx,
                   success_count, log>>

Next == Enumerate \/ ProcessFile \/ Summary

Spec == Init /\ [][Next]_vars

SpecImage == InitImage /\ [][Next]_vars

---------------------------------------------------------------------------
(* Vocabulary of the properties *)

RecognizedExtensions == {"jpg", "jpeg", "png", "JPG", "JPEG", "PNG"}

\* the name ends in a dot and a recognized extension
RecognizedName(n) ==
    \E e \in RecognizedExtensions : Len(n) >= 2 /\ SubSeq(n, Len(n) - 1, Len(n)) = <<Dot, e>>

\* the extension of a name: its tail from the last dot, when that dot is
\* neither the first nor the last token
NameExtension(n) ==
    IF \E i \in 2..(Len(n) - 1) : n[i] = Dot /\ \A j \in (i + 1)..Len(n) : n[j] # Dot
    THEN LET i == CHOOSE i \in 2..(Len(n) - 1) :
                     n[i] = Dot /\ \A j \in (i + 1)..Len(n) : n[j] # Dot
         IN  [j \in 1..(Len(n) - i + 1) |-> n[i + j - 1]]
    ELSE <<>>

Calls == 1..Len(log)
FailedCalls == {i \in Calls : ~log[i].ok}
OkCalls == {i \in Calls : log[i].ok}
Returned == pc \in {"done", "crashed"}
Enumerated == pc # "start"

\* an explicit positional argument that main took as a file
ExplicitFile(p) ==
    /\ ~args.all
    /\ \E k \in 1..Len(args.input) : args.input[k] = p
    /\ is_file(p, fs)

\* the recognized image files directly in directory d
ImageFilesIn(d) ==
    {PathOf(e.dir, e.name) : e \in {f \in fs : f.dir = d /\ f.kind = "file"
                                                /\ RecognizedName(f.name)}}

---------------------------------------------------------------------------
(* C1: when main has returned from a run over two or more candidates in     *)
(* which exactly one call of remove_background raised, every candidate was  *)
(* attempted once, in order; every other call saved its output and was      *)
(* counted; the summary reports (total - 1)/total.                          *)
C1_OneFailureIsolated ==
    (Returned /\ Len(input_files) >= 2 /\ Cardinality(FailedCalls) = 1) =>
        /\ Len(log) = Len(input_files)
        /\ \A i \in Calls : log[i].input = input_files[i]
        /\ \A i \in OkCalls :
              /\ log[i].saved_to # NoPath
              /\ is_file(log[i].saved_to, fs)
        /\ \A i \in FailedCalls : ~log[i].ok
        /\ success_count = Len(input_files) - 1
        /\ printed = Message("completed", Len(input_files) - 1, Len(input_files))

\* a run of at least two files in which a file after the failed one succeeded
C1_Witness ==
    /\ pc = "done"
    /\ Len(input_files) >= 2
    /\ Cardinality(FailedCalls) = 1
    /\ \E i, j \in Calls : i < j /\ ~log[i].ok /\ log[j].ok
    /\ printed.msg = "completed"

(* C2: after argument parsing no exception escapes main: main never ends   *)
(* in the crashed state.                                                    *)
C2_MainAlwaysReturns == pc # "crashed"

(* C3: the candidate list holds no path more than once.                     *)
C3_NoDuplicateCandidates ==
    \A i, j \in 1..Len(input_files) : i # j => input_files[i] # input_files[j]

(* C4: after a run the successful calls wrote as many distinct output       *)
(* files as were counted, no successful call's output path is the output    *)
(* path of another call, and a failed call left no output.                  *)
C4_OneFileInOneFileOut ==
    pc = "done" =>
        /\ Cardinality({log[i].saved_to : i \in OkCalls}) = success_count
        /\ \A i \in OkCalls : \A j \in Calls :
              i # j => log[j].saved_to # log[i].saved_to
        /\ \A i \in FailedCalls : log[i].saved_to = NoPath

(* C5: a single positional argument that is a directory yields exactly the  *)
(* recognized image files directly in it, each once: no directory, nothing  *)
(* unrecognized, nothing from a subdirectory.                               *)
C5_DirectoryYieldsItsImageFiles ==
    (/\ Enumerated /\ log = <<>>
     /\ ~args.all /\ Len(args.input) = 1
     /\ is_dir(args.input[1], fs) /\ ~is_file(args.input[1], fs)) =>
        /\ {input_files[i] : i \in 1..Len(input_files)} = ImageFilesIn(DirId(args.input[1]))
        /\ Len(input_files) = Cardinality(ImageFilesIn(DirId(args.input[1])))

(* C6: with no positional argument, no --all and no recognized image file   *)
(* in the current directory, main reports that nothing was found and        *)
(* returns: it never enters the loop (where the output directory is made    *)
(* and files are written) and calls remove_background for no file.          *)
C6_NothingFoundNothingDone ==
    (args.input = <<>> /\ ~args.all /\ ImageFilesIn(Cwd) = {}) =>
        /\ pc \in {"start", "done"}
        /\ log = <<>>
        /\ pc = "done" => printed.msg = "none"

(* C7 as stated: every candidate has a recognized extension.                *)
C7_AllCandidatesRecognized ==
    \A i \in 1..Len(input_files) : RecognizedName(input_files[i].name)

(* C7 as amended: every candidate has a recognized extension unless it is   *)
(* a positional argument that is a file; such an argument is a candidate    *)
(* whatever its extension.                                                  *)
C7_GlobbedCandidatesRecognized ==
    /\ \A i \in 1..Len(input_files) :
          RecognizedName(input_files[i].name) \/ ExplicitFile(input_files[i])
    /\ Enumerated =>
          \A k \in 1..Len(args.input) :
             (~args.all /\ is_file(args.input[k], fs)) =>
                 \E i \in 1..Len(input_files) : input_files[i] = args.input[k]

\* a list with an unrecognized explicit file and a file found by a glob
C7_Witness ==
    /\ Enumerated
    /\ \E i, j \in 1..Len(input_files) :
          /\ ~RecognizedName(input_files[i].name)
          /\ ExplicitFile(input_files[i])
          /\ RecognizedName(input_files[j].name)
          /\ ~ExplicitFile(input_files[j])

(* C8: with -o, the output path of every call is the output directory       *)
(* joined with the input's whole file name, and what is saved is saved      *)
(* there: no "_no_bg" is inserted.                                          *)
C8_OutputDirKeepsName ==
    args.output =>
        \A i \in Calls :
           /\ log[i].output_path = PathOf(OutDir, log[i].input.name)
           /\ log[i].saved_to \in {NoPath, PathOf(OutDir, log[i].input.name)}

\* a file with an extension saved into the output directory
C8_Witness ==
    /\ args.output
    /\ \E i \in OkCalls :
          /\ NameExtension(log[i].input.name) # <<>>
          /\ log[i].saved_to.dir = OutDir
          /\ is_file(log[i].saved_to, fs)

(* C9: without -o, main passes no output path and what a call saves is      *)
(* saved in the input's directory under the input's name with "_no_bg"      *)
(* inserted just before its extension.                                      *)
C9_DerivedNameKeepsDirAndExtension ==
    ~args.output =>
        \A i \in Calls :
           /\ log[i].output_path = NoPath
           /\ log[i].saved_to # NoPath =>
                 LET n == log[i].input.name
                     k == Len(n) - Len(NameExtension(n))
                 IN  /\ log[i].saved_to.dir = log[i].input.dir
                     /\ log[i].saved_to.name =
                           SubSeq(n, 1, k) \o <<NoBgSuffix>> \o NameExtension(n)

\* a file with an extension saved beside its input
C9_Witness ==
    /\ ~args.output
    /\ \E i \in OkCalls :
          /\ NameExtension(log[i].input.name) # <<>>
          /\ log[i].saved_to.dir = log[i].input.dir
          /\ log[i].saved_to # log[i].input
          /\ is_file(log[i].saved_to, fs)

(* C10: with --transparent the saved image is the segmentation result;      *)
(* without it the saved image is an RGB image of the same size, white       *)
(* where the segmentation alpha is 0 and of the segmentation's colour       *)
(* where the alpha is 255.                                                  *)
C10_TransparentOrWhite ==
    \A i \in OkCalls :
       IF args.transparent
       THEN log[i].image = log[i].seg
       ELSE /\ log[i].image.mode = "RGB"
            /\ Len(log[i].image.px) = Len(log[i].seg.px)
            /\ \A p \in 1..Len(log[i].seg.px) :
                  /\ Len(log[i].image.px[p]) = 3
                  /\ log[i].seg.px[p][4] = 0 => log[i].image.px[p] = White
                  /\ log[i].seg.px[p][4] = 255 =>
                        log[i].image.px[p] = SubSeq(log[i].seg.px[p], 1, 3)

\* a white composite of a result with a coloured transparent pixel and a
\* coloured opaque one
C10_Witness ==
    /\ ~args.transparent
    /\ \E i \in OkCalls :
          \E p, q \in 1..Len(log[i].seg.px) :
             /\ log[i].seg.px[p][4] = 0
             /\ SubSeq(log[i].seg.px[p], 1, 3) # White
             /\ log[i].seg.px[q][4] = 255
             /\ SubSeq(log[i].seg.px[q], 1, 3) # White

====
